---- MODULE Spec2Model ----
(***************************************************************************)
(* Model of src/src/app.py (main_app): the text splitter split_text, the   *)
(* per-block request/retry protocol text_to_speech, and the conversion     *)
(* handler that decodes, counts and concatenates the returned audio.       *)
(*                                                                         *)
(* Strings are sequences of one-character strings.  Bytes are sequences    *)
(* of small integers.  An AudioSegment is a sequence of frames.            *)
(***************************************************************************)
EXTENDS Integers, Sequences, FiniteSets, TLC

(***************************************************************************)
(* Bounds of the model.                                                    *)
(***************************************************************************)
\* longest text handed to split_text under SpecSplit
MaxTextLen == 5
\* largest max_length handed to split_text under SpecSplit
MaxLength == 6
\* longest text typed into the text area under Spec
MaxRunTextLen == 5
\* split_text's default max_length (4000 in the source), scaled down
DefaultMaxLength == 2

(***************************************************************************)
(* Program constants.                                                      *)
(***************************************************************************)
\* text_to_speech(..., retries=2)
retries == 2
\* time.sleep(2)
BackoffDelay == 2

(***************************************************************************)
(* Characters.                                                             *)
(***************************************************************************)
\* the characters texts are drawn from: a letter, a terminator, two
\* different whitespace characters
Alphabet == {"a", ".", " ", "\n"}

\* [.!?] of the split pattern
Terminators == {".", "!", "?"}

\* what \s and str.strip() treat as whitespace
Whitespace == {" ", "\n", "\t", "\r"}

Texts(n) == UNION {[1..k -> Alphabet] : k \in 0..n}

(***************************************************************************)
(* String helpers of the Python runtime, as split_text uses them.          *)
(***************************************************************************)
RECURSIVE lstrip(_)
lstrip(s) ==
  IF s = <<>> THEN <<>>
  ELSE IF Head(s) \in Whitespace THEN lstrip(Tail(s)) ELSE s

RECURSIVE rstrip(_)
rstrip(s) ==
  IF s = <<>> THEN <<>>
  ELSE IF s[Len(s)] \in Whitespace THEN rstrip(SubSeq(s, 1, Len(s) - 1)) ELSE s

\* str.strip()
strip(s) == rstrip(lstrip(s))

\* first position >= i of s that holds no whitespace (Len(s) + 1 if none):
\* where a greedy \s+ that starts at i ends
RECURSIVE SkipSpace(_, _)
SkipSpace(s, i) ==
  IF i > Len(s) THEN i
  ELSE IF s[i] \in Whitespace THEN SkipSpace(s, i + 1) ELSE i

\* re.split(r'(?<=[.!?])\s+', s) scanning from position i with the piece
\* cur collected so far: a match starts at a whitespace character whose
\* predecessor is a terminator and takes the whole whitespace run
RECURSIVE re_split_from(_, _, _)
re_split_from(s, i, cur) ==
  IF i > Len(s) THEN <<cur>>
  ELSE IF i > 1 /\ s[i - 1] \in Terminators /\ s[i] \in Whitespace
       THEN <<cur>> \o re_split_from(s, SkipSpace(s, i), <<>>)
       ELSE re_split_from(s, i + 1, Append(cur, s[i]))

re_split(s) == re_split_from(s, 1, <<>>)

(***************************************************************************)
(* split_text (lines 155-169).                                             *)
(***************************************************************************)
\* "if len(current) + len(p) + 1 <= max_length" (line 161)
fits(current, p, maxlen) == Len(current) + Len(p) + 1 <= maxlen

\* forgets the separating space
extend_block_glued(current, p) == current \o p

\* current += p + " " (line 162)
extend_block(current, p) == current \o p \o <<" ">>

\* current = p + " " (line 165)
start_block(p) == p \o <<" ">>

\* the loop "for p in paragraphs" from paragraph i on, with the blocks and
\* the current block built so far; the final "if current" included
RECURSIVE split_loop(_, _, _, _, _)
split_loop(paragraphs, i, blocks, current, maxlen) ==
  IF i > Len(paragraphs)
  THEN IF current # <<>> THEN Append(blocks, strip(current)) ELSE blocks
  ELSE LET p == paragraphs[i] IN
       IF fits(current, p, maxlen)
       THEN split_loop(paragraphs, i + 1, blocks, extend_block(current, p), maxlen)
       ELSE split_loop(paragraphs, i + 1, Append(blocks, strip(current)),
                       start_block(p), maxlen)

split_text(t, maxlen) == split_loop(re_split(strip(t)), 1, <<>>, <<>>, maxlen)

(***************************************************************************)
(* Audio: the part of pydub the handler uses.                              *)
(***************************************************************************)
\* the bodies a status-200 response may carry (response.content): an empty
\* body and two different audio payloads
Bodies == {<<>>, <<1>>, <<2, 2>>}

\* AudioSegment.from_file(BytesIO(audio_bytes), format="mp3") when it does
\* not raise: one frame per encoded byte
from_file(bytes) == [i \in 1..Len(bytes) |-> [pcm |-> bytes[i]]]

\* combined.export(mp3_buffer, format="mp3"); mp3_buffer.getvalue() when it
\* does not raise
export(segment) == [i \in 1..Len(segment) |-> segment[i].pcm]

\* puts the new segment first
prepend_segment(segments, segment) == <<segment>> \o segments

\* audio_segments.append(segment) (line 239)
append_segment(segments, segment) == Append(segments, segment)

\* sum(audio_segments) (line 262): 0 + s1 + s2 + ..., where 0 + s1 is s1 and
\* s + t is t's frames after s's
RECURSIVE sum_from(_, _, _)
sum_from(segments, i, acc) ==
  IF i > Len(segments) THEN acc
  ELSE sum_from(segments, i + 1, acc \o segments[i])

sum(segments) == sum_from(segments, 1, <<>>)

(***************************************************************************)
(* The values of text_to_speech's result.                                  *)
(***************************************************************************)
\* return None
None == [isNone |-> TRUE, content |-> <<>>]

\* falls through without the body
content_lost(bytes) == None

\* return response.content
Content(bytes) == [isNone |-> FALSE, content |-> bytes]

\* tests only for None
truthy_not_none(bytes) == ~bytes.isNone

\* "if audio_bytes:" (line 236): None and b"" are both falsy
truthy(bytes) == ~bytes.isNone /\ bytes.content # <<>>

\* range(retries + 1) (line 128)
attempt_range == 0..retries

\* retries, and so sleeps, after the last attempt too
can_retry_always(a) == a <= retries

\* gives up one attempt early
can_retry_one_short(a) == a < retries - 1

\* "if attempt < retries" (line 146)
can_retry(a) == a < retries

\* tests the text without stripping it
is_blank_unstripped(t) == t = <<>>

\* "if not text.strip()" (line 216)
is_blank(t) == strip(t) = <<>>

\* steps over a block
next_block_skip(i) == i + 2

\* enumerate(text_parts, start=1) moving to the next block (line 228)
next_block(i) == i + 1

\* concatenates whatever was collected
all_succeeded_any(count, parts, segments) == segments # <<>>

\* compares the count with the segments collected, not with the blocks
all_succeeded_of_collected(count, parts, segments) ==
  count = Len(segments) /\ segments # <<>>

\* tolerates one missing block
all_succeeded_but_one(count, parts, segments) ==
  count + 1 >= Len(parts) /\ segments # <<>>

\* "if success_count == len(text_parts) and audio_segments" (line 258)
all_succeeded(count, parts, segments) == count = Len(parts) /\ segments # <<>>

(***************************************************************************)
(* State.                                                                  *)
(***************************************************************************)
VARIABLES
  pc,             \* where the script is
  text,           \* the text area's content
  max_length,     \* split_text's max_length
  char_count,     \* len(text.strip())
  text_parts,     \* split_text's result
  idx,            \* the block being processed (1-based, as enumerate gives)
  attempt,        \* text_to_speech's loop variable
  responses,      \* what each requests.post of the current call ended in
  slept,          \* time spent in time.sleep during the current call
  error_message,  \* where the current call's error text came from
  response_content, \* the body of the current call's status-200 response
  audio_bytes,    \* text_to_speech's result for the current block
  audio_segments, \* the decoded segments collected so far
  success_count,  \* blocks decoded so far
  calls,          \* the blocks text_to_speech was called for, in order
  report,         \* the per-block message shown (lines 240, 243, 246)
  decoded,        \* the segment each block decoded to (<<>> if it did not)
  results,        \* what text_to_speech returned for each block
  combined,       \* sum(audio_segments)
  mp3_data,       \* what st.audio and st.download_button are given
  outcome         \* the final message shown

vars == <<pc, text, max_length, char_count, text_parts, idx, attempt, responses,
          slept, error_message, response_content, audio_bytes, audio_segments,
          success_count, calls, report, decoded, results, combined, mp3_data,
          outcome>>

run_vars == <<idx, attempt, responses, slept, error_message,
              response_content, audio_bytes, audio_segments, success_count, calls, report, decoded, results,
              combined, mp3_data, outcome>>

RunAlphabet == {"a", ".", " "}

RunTexts == UNION {[1..k -> RunAlphabet] : k \in 0..MaxRunTextLen}

InitRun ==
  /\ idx = 0
  /\ attempt = 0
  /\ responses = <<>>
  /\ slept = 0
  /\ error_message = "none"
  /\ response_content = <<>>
  /\ audio_bytes = None
  /\ audio_segments = <<>>
  /\ success_count = 0
  /\ calls = <<>>
  /\ report = <<>>
  /\ decoded = <<>>
  /\ results = <<>>
  /\ combined = <<>>
  /\ mp3_data = <<>>
  /\ outcome = "none"

\* the page before the script has run: some text is in the text area
Init ==
  /\ pc = "Render"
  /\ text \in RunTexts
  /\ max_length = DefaultMaxLength
  /\ char_count = 0
  /\ text_parts = <<>>
  /\ InitRun

(***************************************************************************)
(* The script up to the button (lines 193-211).                            *)
(***************************************************************************)
Render ==
  /\ pc = "Render"
  /\ pc' = "Idle"
  /\ char_count' = Len(strip(text))
  /\ text_parts' = IF Len(strip(text)) # 0 THEN split_text(text, max_length)
                   ELSE text_parts
  /\ UNCHANGED <<text, max_length, run_vars>>

(***************************************************************************)
(* The button's handler (lines 215-287), one action per blocking step.     *)
(***************************************************************************)
\* lines 215-226
ClickConvert ==
  /\ pc = "Idle"
  /\ IF is_blank(text)
     THEN /\ pc' = "Done"
          /\ outcome' = "Rejected"
          /\ UNCHANGED <<idx, audio_segments, success_count>>
     ELSE /\ pc' = "Loop"
          /\ audio_segments' = <<>>
          /\ success_count' = 0
          /\ idx' = 1
          /\ UNCHANGED outcome
  /\ UNCHANGED <<text, max_length, char_count, text_parts, attempt, responses,
                 slept, error_message, response_content, audio_bytes, calls,
                 report, decoded, results, combined, mp3_data>>

\* lines 228-230 and 126-128: the loop takes the next block and calls
\* text_to_speech for it
CallTextToSpeech ==
  /\ pc = "Loop"
  /\ idx <= Len(text_parts)
  /\ pc' = "Post"
  /\ calls' = Append(calls, idx)
  /\ attempt' = 0
  /\ responses' = <<>>
  /\ slept' = 0
  /\ error_message' = "none"
  /\ response_content' = <<>>
  /\ audio_bytes' = None
  /\ UNCHANGED <<text, max_length, char_count, text_parts, idx,
                 audio_segments, success_count, report, decoded, results,
                 combined, mp3_data, outcome>>

\* lines 130-137: the request is answered with status 200
PostOk ==
  /\ pc = "Post"
  /\ attempt \in attempt_range
  /\ \E body \in Bodies :
       /\ responses' = Append(responses, "ok")
       /\ response_content' = body
       /\ audio_bytes' = Content(body)
       /\ pc' = "Returned"
  /\ UNCHANGED <<text, max_length, char_count, text_parts, idx, attempt,
                 slept, error_message, audio_segments, success_count, calls,
                 report, decoded, results, combined, mp3_data, outcome>>

\* treats a rejection like a transport error: tries again
PostRejectedRetried ==
  /\ pc = "Post"
  /\ attempt \in attempt_range
  /\ responses' = Append(responses, "rejected")
  /\ error_message' = "response.text"
  /\ IF can_retry(attempt)
     THEN /\ attempt' = attempt + 1
          /\ pc' = "Post"
          /\ UNCHANGED audio_bytes
     ELSE /\ audio_bytes' = None
          /\ pc' = "Returned"
          /\ UNCHANGED attempt
  /\ UNCHANGED <<text, max_length, char_count, text_parts, idx, slept,
                 response_content, audio_segments, success_count, calls,
                 report, decoded, results, combined, mp3_data, outcome>>

\* lines 138-144: the request is answered with another status; the body is
\* a JSON object with error.message, a JSON object without it, or not JSON
\* (the provider's error format).  A JSON body of another shape, one whose
\* top level or "error" member is not an object, is not among the bodies
\* drawn here: on it .get raises AttributeError, which nothing catches.
PostRejected ==
  /\ pc = "Post"
  /\ attempt \in attempt_range
  /\ \E body \in {"json_error_message", "json_other", "not_json"} :
       /\ responses' = Append(responses, "rejected")
       /\ error_message' = IF body = "json_error_message" THEN "error.message"
                           ELSE "response.text"
       /\ audio_bytes' = None
       /\ pc' = "Returned"
  /\ UNCHANGED <<text, max_length, char_count, text_parts, idx, attempt,
                 slept, response_content, audio_segments, success_count,
                 calls, report, decoded, results, combined, mp3_data, outcome>>

\* lines 145-152: requests.post raises requests.RequestException
PostTransportError ==
  /\ pc = "Post"
  /\ attempt \in attempt_range
  /\ responses' = Append(responses, "error")
  /\ IF can_retry(attempt)
     THEN /\ slept' = slept + BackoffDelay
          /\ attempt' = attempt + 1
          /\ IF attempt + 1 \in attempt_range
             THEN /\ pc' = "Post"
                  /\ UNCHANGED audio_bytes
             ELSE \* the loop ends and the function returns nothing
                  /\ pc' = "Returned"
                  /\ audio_bytes' = None
     ELSE /\ audio_bytes' = None
          /\ pc' = "Returned"
          /\ UNCHANGED <<slept, attempt>>
  /\ UNCHANGED <<text, max_length, char_count, text_parts, idx, error_message,
                 response_content, audio_segments, success_count, calls,
                 report, decoded, results, combined, mp3_data, outcome>>

\* counts the block before its bytes are decoded
ProcessBlockCountsEarly ==
  /\ pc = "Returned"
  /\ pc' = "Loop"
  /\ idx' = next_block(idx)
  /\ results' = Append(results, audio_bytes)
  /\ IF truthy(audio_bytes)
     THEN /\ success_count' = success_count + 1
          /\ \E decodes \in BOOLEAN :
               IF decodes
               THEN /\ audio_segments' =
                         append_segment(audio_segments,
                                        from_file(audio_bytes.content))
                    /\ report' = Append(report, "success")
                    /\ decoded' =
                         Append(decoded, from_file(audio_bytes.content))
               ELSE /\ report' = Append(report, "decode_error")
                    /\ decoded' = Append(decoded, <<>>)
                    /\ UNCHANGED audio_segments
     ELSE /\ report' = Append(report, "failed")
          /\ decoded' = Append(decoded, <<>>)
          /\ UNCHANGED <<audio_segments, success_count>>
  /\ UNCHANGED <<text, max_length, char_count, text_parts, attempt, responses,
                 slept, error_message, response_content, audio_bytes, calls,
                 combined, mp3_data, outcome>>

\* lets an exception of from_file end the script
ProcessBlockUncaught ==
  /\ pc = "Returned"
  /\ idx' = next_block(idx)
  /\ results' = Append(results, audio_bytes)
  /\ IF truthy(audio_bytes)
     THEN \E decodes \in BOOLEAN :
            IF decodes
            THEN /\ pc' = "Loop"
                 /\ audio_segments' =
                      append_segment(audio_segments,
                                     from_file(audio_bytes.content))
                 /\ success_count' = success_count + 1
                 /\ report' = Append(report, "success")
                 /\ decoded' = Append(decoded, from_file(audio_bytes.content))
            ELSE /\ pc' = "Raised"
                 /\ UNCHANGED <<audio_segments, success_count, report,
                                decoded>>
     ELSE /\ pc' = "Loop"
          /\ report' = Append(report, "failed")
          /\ decoded' = Append(decoded, <<>>)
          /\ UNCHANGED <<audio_segments, success_count>>
  /\ UNCHANGED <<text, max_length, char_count, text_parts, attempt, responses,
                 slept, error_message, response_content, audio_bytes, calls,
                 combined, mp3_data, outcome>>

\* lines 231-246: the block's result is decoded and reported; from_file may
\* raise for any bytes
ProcessBlock ==
  /\ pc = "Returned"
  /\ pc' = "Loop"
  /\ idx' = next_block(idx)
  /\ results' = Append(results, audio_bytes)
  /\ IF truthy(audio_bytes)
     THEN \E decodes \in BOOLEAN :
            IF decodes
            THEN /\ audio_segments' =
                      append_segment(audio_segments,
                                     from_file(audio_bytes.content))
                 /\ success_count' = success_count + 1
                 /\ report' = Append(report, "success")
                 /\ decoded' = Append(decoded, from_file(audio_bytes.content))
            ELSE /\ report' = Append(report, "decode_error")
                 /\ decoded' = Append(decoded, <<>>)
                 /\ UNCHANGED <<audio_segments, success_count>>
     ELSE /\ report' = Append(report, "failed")
          /\ decoded' = Append(decoded, <<>>)
          /\ UNCHANGED <<audio_segments, success_count>>
  /\ UNCHANGED <<text, max_length, char_count, text_parts, attempt, responses,
                 slept, error_message, response_content, audio_bytes, calls,
                 combined, mp3_data, outcome>>

\* lines 248-287: the results and, when every block succeeded, the
\* concatenation; sum or export may raise
ShowResults ==
  /\ pc = "Loop"
  /\ idx > Len(text_parts)
  /\ pc' = "Done"
  /\ IF all_succeeded(success_count, text_parts, audio_segments)
     THEN \E exports \in BOOLEAN :
            IF exports
            THEN /\ combined' = sum(audio_segments)
                 /\ mp3_data' = export(sum(audio_segments))
                 /\ outcome' = "Complete"
            ELSE /\ outcome' = "ExportError"
                 /\ UNCHANGED <<combined, mp3_data>>
     ELSE /\ outcome' = IF audio_segments = <<>> THEN "NothingGenerated"
                        ELSE "Incomplete"
          /\ UNCHANGED <<combined, mp3_data>>
  /\ UNCHANGED <<text, max_length, char_count, text_parts, idx, attempt,
                 responses, slept, error_message, response_content,
                 audio_bytes, audio_segments, success_count, calls, report,
                 decoded, results>>

Next ==
  \/ Render
  \/ ClickConvert
  \/ CallTextToSpeech
  \/ PostOk
  \/ PostRejected
  \/ PostTransportError
  \/ ProcessBlock
  \/ ShowResults

Spec == Init /\ [][Next]_vars

\* the script runs on its own thread and every step of it ends: a request
\* is answered or raises within its timeout (line 134), a sleep lasts two
\* seconds (line 148), the rest is computation
FairSpec == Spec /\ WF_vars(Next)

(***************************************************************************)
(* split_text on its own: every text and every max_length of the bounds.   *)
(***************************************************************************)
InitSplit ==
  /\ pc = "SplitIdle"
  /\ text \in Texts(MaxTextLen)
  /\ max_length \in 1..MaxLength
  /\ char_count = 0
  /\ text_parts = <<>>
  /\ InitRun

SplitCall ==
  /\ pc = "SplitIdle"
  /\ pc' = "SplitDone"
  /\ text_parts' = split_text(text, max_length)
  /\ UNCHANGED <<text, max_length, char_count, run_vars>>

NextSplit == SplitCall

SpecSplit == InitSplit /\ [][NextSplit]_vars

(***************************************************************************)
(* Vocabulary of the properties.                                           *)
(***************************************************************************)
\* the final messages that leave the run without a final audio
PartialFailure == {"ExportError", "NothingGenerated", "Incomplete"}

\* the run has passed the input check and shown its results
Finished == pc = "Done" /\ outcome # "Rejected"

\* some block of the report did not succeed
SomeBlockFailed == \E i \in 1..Len(report) : report[i] # "success"

\* every request of the current call ended in a transport error
AllTransportErrors == \A i \in 1..Len(responses) : responses[i] = "error"

(***************************************************************************)
(* Properties of text_to_speech and of the handler, under Spec.            *)
(***************************************************************************)
\* C1: a call of text_to_speech issues at most retries + 1 requests, and a
\* call whose every request ended in a transport error returns None after
\* exactly retries + 1 requests.
C1_RetryBound ==
  /\ Len(responses) <= retries + 1
  /\ (pc = "Returned" /\ AllTransportErrors)
       => (Len(responses) = retries + 1 /\ audio_bytes = None)

C1_Witness ==
  pc = "Returned" /\ responses = <<"error", "error", "error">>

\* C2: a response with a status other than 200 is the last request of its
\* call: the call has returned None and no further request follows it,
\* whatever retry budget remains.
C2_NoRetryAfterRejection ==
  \A i \in 1..Len(responses) :
    responses[i] = "rejected" =>
      (i = Len(responses) /\ pc # "Post" /\ audio_bytes = None)

C2_Witness ==
  /\ pc = "Returned"
  /\ responses = <<"error", "rejected">>
  /\ can_retry(attempt)

\* C3: once some block has failed, nothing is concatenated and no final
\* audio is offered, and the run ends with one of the partial-failure
\* messages.
C3_AllOrNothing ==
  SomeBlockFailed =>
    /\ combined = <<>>
    /\ mp3_data = <<>>
    /\ pc = "Done" => outcome \in PartialFailure

C3_Witness ==
  /\ pc = "Done"
  /\ report = <<"success", "failed", "success">>
  /\ Len(audio_segments) = 2

\* C7: text_to_speech is called once per block, in ascending block order,
\* and by the time the results are shown every block has been called for
\* and has its message in the report, whether or not earlier blocks failed.
C7_EveryBlockAttempted ==
  /\ \A i \in 1..Len(calls) : calls[i] = i
  /\ Len(report) <= Len(calls)
  /\ ((pc = "Loop" /\ idx > Len(text_parts)) \/ Finished)
       => (Len(calls) = Len(text_parts) /\ Len(report) = Len(text_parts))

C7_Witness ==
  /\ Finished
  /\ report = <<"failed", "decode_error", "success">>
  /\ calls = <<1, 2, 3>>

\* C8: a run that passed the input check ends with the complete audio
\* exactly when every block succeeded and the export did not fail;
\* otherwise it ends with a partial-failure message and no final audio.
\* Either way every block has its message in the report.
C8_CompleteIffAllSucceeded ==
  Finished =>
    /\ outcome \in PartialFailure \cup {"Complete"}
    /\ outcome = "Complete" <=>
         (success_count = Len(text_parts) /\ outcome # "ExportError")
    /\ outcome = "Complete" => mp3_data # <<>>
    /\ outcome \in PartialFailure => mp3_data = <<>>
    /\ Len(report) = Len(text_parts)

C8_Witness ==
  /\ Finished
  /\ outcome = "ExportError"
  /\ success_count = Len(text_parts)
  /\ Len(text_parts) = 2

\* C9: for an empty or whitespace-only text the handler stops at the input
\* check: no request is issued, no block is processed, no audio is made.
C9_BlankRejected ==
  strip(text) = <<>> =>
    /\ pc \in {"Render", "Idle", "Done"}
    /\ pc = "Done" => outcome = "Rejected"
    /\ calls = <<>>
    /\ responses = <<>>
    /\ report = <<>>
    /\ audio_segments = <<>>
    /\ mp3_data = <<>>

C9_Witness ==
  /\ pc = "Done"
  /\ outcome = "Rejected"
  /\ text = <<" ", " ">>

\* the segments of blocks 1..n, one after the other
RECURSIVE InBlockOrder(_, _)
InBlockOrder(segments, n) ==
  IF n = 0 THEN <<>> ELSE InBlockOrder(segments, n - 1) \o segments[n]

RECURSIVE TotalLength(_, _)
TotalLength(segments, n) ==
  IF n = 0 THEN 0 ELSE TotalLength(segments, n - 1) + Len(segments[n])

\* C10: when every block succeeds, the final audio is the segments the
\* blocks decoded to, one per block, in ascending block order, so its
\* length is the sum of their lengths.
C10_ConcatenationInOrder ==
  (pc = "Done" /\ outcome = "Complete") =>
    /\ Len(decoded) = Len(text_parts)
    /\ combined = InBlockOrder(decoded, Len(text_parts))
    /\ Len(combined) = TotalLength(decoded, Len(text_parts))
    /\ mp3_data = export(combined)

C10_Witness ==
  /\ pc = "Done"
  /\ outcome = "Complete"
  /\ Len(text_parts) = 3
  /\ Len(decoded[1]) # Len(decoded[2])
  /\ Len(decoded[2]) # Len(decoded[3])

\* the final messages a run may end with
Terminal == {"Rejected", "Complete"} \cup PartialFailure

ReturnedRejected ==
  /\ pc = "Returned"
  /\ responses # <<>>
  /\ responses[Len(responses)] = "rejected"

\* C15 as stated: a call that ends in a rejection made exactly one request,
\* also when transport errors came first.
C15_OneRequestOnRejection == ReturnedRejected => Len(responses) = 1

\* C15 amended: a call that ends in a rejection made one request for the
\* rejection plus one for each transport error before it, and none after:
\* exactly one when no transport error came first, at most retries + 1.
C15_RejectionIsLastRequest ==
  ReturnedRejected =>
    /\ Len(responses) = attempt + 1
    /\ Len(responses) <= retries + 1
    /\ \A i \in 1..(Len(responses) - 1) : responses[i] = "error"

C15_Witness ==
  /\ ReturnedRejected
  /\ responses = <<"error", "error", "rejected">>
  /\ attempt = retries

\* C16: during a call the time slept is one backoff of BackoffDelay per
\* request already made while another request is still to come (none
\* before the first), and once the call has returned it is one backoff
\* per request but the last: nothing is slept after the final failure,
\* after a 200 or after another status.
C16_BackoffBetweenAttempts ==
  /\ pc = "Post" =>
       (slept = BackoffDelay * Len(responses) /\ AllTransportErrors)
  /\ pc = "Returned" => slept = BackoffDelay * (Len(responses) - 1)

C16_Witness ==
  /\ pc = "Returned"
  /\ responses = <<"error", "error", "error">>
  /\ slept = BackoffDelay * retries
  /\ audio_bytes = None

\* some block's bytes did not decode
SomeDecodeError == \E i \in 1..Len(report) : report[i] = "decode_error"

\* C17: once the bytes of some block have failed to decode, the segments
\* of the other blocks are never concatenated and no final audio is made,
\* and the run ends with the warning that not all blocks were generated
\* (or that none was), also when every request was answered with 200.
C17_DecodeErrorNoAudio ==
  SomeDecodeError =>
    /\ Len(audio_segments) < Len(report)
    /\ combined = <<>>
    /\ mp3_data = <<>>
    /\ pc = "Done" => outcome \in {"NothingGenerated", "Incomplete"}

C17_Witness ==
  /\ pc = "Done"
  /\ report = <<"success", "decode_error", "success">>
  /\ \A i \in 1..Len(results) : truthy(results[i])
  /\ outcome = "Incomplete"

\* C18: a response with status 200, on the first attempt or on a retry
\* after transport errors, is the last request of its call: the call has
\* returned that response's body, and only transport errors came before.
C18_ReturnsOnFirstOk ==
  \A i \in 1..Len(responses) :
    responses[i] = "ok" =>
      /\ i = Len(responses)
      /\ pc # "Post"
      /\ ~audio_bytes.isNone
      /\ audio_bytes.content = response_content
      /\ \A j \in 1..(i - 1) : responses[j] = "error"

C18_Witness ==
  /\ pc = "Returned"
  /\ responses = <<"error", "error", "ok">>
  /\ Len(responses) = retries + 1
  /\ audio_bytes.content = <<2, 2>>

\* the blocks reported as generated
Succeeded == {i \in 1..Len(report) : report[i] = "success"}

\* C19: throughout the loop success_count is the number of segments
\* collected and of blocks reported as generated, and never more than the
\* blocks processed; a block is reported as generated only if its call
\* returned a body that is not empty and that body decoded, and a block
\* whose status-200 body is empty is reported as failed.
C19_CountedOnlyIfDecoded ==
  /\ success_count = Len(audio_segments)
  /\ success_count = Cardinality(Succeeded)
  /\ success_count <= Len(report)
  /\ Len(results) = Len(report)
  /\ \A i \in 1..Len(report) :
       /\ report[i] = "success" =>
            /\ ~results[i].isNone
            /\ results[i].content # <<>>
            /\ decoded[i] = from_file(results[i].content)
       /\ (~results[i].isNone /\ results[i].content = <<>>) =>
            report[i] = "failed"

C19_Witness ==
  /\ pc = "Loop"
  /\ Len(text_parts) = 3
  /\ report = <<"failed", "success">>
  /\ results[1] = Content(<<>>)
  /\ success_count = 1

\* the blocks for which text_to_speech returned a response body
Synthesized == {i \in 1..Len(results) : ~results[i].isNone}

\* the blocks whose body was not empty and decoded
Decoded == {i \in 1..Len(results) : truthy(results[i]) /\ decoded[i] # <<>>}

\* C11 as stated: at the end of a run success_count is the number of blocks
\* whose synthesis succeeded (text_to_speech returned the response body),
\* and the total shown is the number of blocks split_text produced.
C11_CountsSynthesized ==
  Finished =>
    /\ success_count = Cardinality(Synthesized)
    /\ Len(text_parts) = Len(split_text(text, max_length))

\* C11 amended: at the end of a run success_count is the number of blocks
\* whose synthesis returned a body that was not empty and decoded, the total
\* shown is the number of blocks split_text produced, and when the count
\* is below the total no final audio is offered.
C11_CountsDecoded ==
  Finished =>
    /\ success_count = Cardinality(Decoded)
    /\ Len(results) = Len(text_parts)
    /\ Len(text_parts) = Len(split_text(text, max_length))
    /\ success_count < Len(text_parts) =>
         (mp3_data = <<>> /\ outcome \in PartialFailure)

C11_Witness ==
  /\ Finished
  /\ Len(text_parts) = 3
  /\ Synthesized = {1, 3}
  /\ responses = <<"ok">>
  /\ success_count = 2
  /\ outcome = "Incomplete"

(***************************************************************************)
(* Properties of split_text, under SpecSplit.                              *)
(***************************************************************************)
\* the text has been split
Split == pc = "SplitDone"

\* str.split(): the maximal runs of characters that are not whitespace,
\* from position i on, with the word w collected so far
RECURSIVE words_from(_, _, _)
words_from(s, i, w) ==
  IF i > Len(s) THEN (IF w = <<>> THEN <<>> ELSE <<w>>)
  ELSE IF s[i] \in Whitespace
       THEN (IF w = <<>> THEN <<>> ELSE <<w>>) \o words_from(s, i + 1, <<>>)
       ELSE words_from(s, i + 1, Append(w, s[i]))

Words(s) == words_from(s, 1, <<>>)

\* " ".join(blocks)
RECURSIVE Join(_)
Join(blocks) ==
  IF blocks = <<>> THEN <<>>
  ELSE IF Len(blocks) = 1 THEN blocks[1]
  ELSE blocks[1] \o <<" ">> \o Join(Tail(blocks))

\* C4: for a text that is not blank, every block split_text returns has
\* between 1 and max_length characters.
C4_BlockLengths ==
  (Split /\ strip(text) # <<>>) =>
    \A i \in 1..Len(text_parts) :
      1 <= Len(text_parts[i]) /\ Len(text_parts[i]) <= max_length

\* C5: for a text that is not blank and no longer than max_length,
\* split_text returns exactly one block, the stripped text.
C5_ShortTextOneBlock ==
  (Split /\ strip(text) # <<>> /\ Len(text) <= max_length) =>
    text_parts = <<strip(text)>>

\* C6: the blocks joined by single spaces and stripped have the words of
\* the text, in the text's order.
C6_WordsPreserved ==
  Split => Words(strip(Join(text_parts))) = Words(text)

C6_Witness ==
  /\ Split
  /\ Len(text_parts) >= 2
  /\ Len(Words(text)) >= 3
  /\ Join(text_parts) # text

\* s cut into consecutive pieces of n characters, the last possibly shorter
RECURSIVE FixedCuts(_, _)
FixedCuts(s, n) ==
  IF s = <<>> THEN <<>>
  ELSE IF Len(s) <= n THEN <<s>>
  ELSE <<SubSeq(s, 1, n)>> \o FixedCuts(SubSeq(s, n + 1, Len(s)), n)

\* the text holds neither a sentence terminator nor whitespace
OneToken(s) == \A i \in 1..Len(s) : s[i] \notin Terminators \cup Whitespace

\* C12: a text without terminator or whitespace that is longer than
\* max_length is returned as consecutive pieces of max_length characters,
\* the last possibly shorter.
C12_FixedWidthCuts ==
  (Split /\ OneToken(text) /\ Len(text) > max_length) =>
    text_parts = FixedCuts(text, max_length)

\* the lengths of the prefixes of s of at most n characters that end at a
\* sentence terminator followed by whitespace or by the end of s
SentenceEnds(s, n) ==
  {k \in 1..Len(s) :
     /\ k <= n
     /\ s[k] \in Terminators
     /\ (k = Len(s) \/ s[k + 1] \in Whitespace)}

Longest(K) == CHOOSE k \in K : \A j \in K : j <= k

\* C14: when the stripped text has a prefix of at most max_length
\* characters that ends at a sentence end, the first block is the longest
\* such prefix; so sentences that together have exactly max_length
\* characters are one block.
C14_LongestSentencePrefix ==
  (Split /\ SentenceEnds(strip(text), max_length) # {}) =>
    /\ text_parts # <<>>
    /\ text_parts[1] =
         SubSeq(strip(text), 1, Longest(SentenceEnds(strip(text), max_length)))

====
